---- MODULE Spec2Model ----
(***************************************************************************)
(* Section-level sync of AI-tool instruction files (ai_tooling).            *)
(*                                                                         *)
(* A text is a sequence of one-character strings (a Python str); a file is *)
(* a record [exists, text].  The metadata file is kept by its JSON shape:  *)
(* absent, malformed (not JSON), nosections (JSON object without the       *)
(* "sections" key) or record (with the name -> hash mapping).              *)
(***************************************************************************)
EXTENDS Integers, Sequences, FiniteSets, TLC

VARIABLES template, target, meta, result, written, edits, batch

vars == <<template, target, meta, result, written, edits, batch>>

(***************************************************************************)
(* Bounds of the model.                                                    *)
(***************************************************************************)
MaxEdits == 2
MaxTargetLines == 5
MaxTools == 2
MaxParseLines == 4
MaxBlocks == 2

(***************************************************************************)
(* Characters and lines.                                                   *)
(***************************************************************************)
NL == "\n"

WordChars == {"A", "B", "T", "x"}

IsWordChar(c) == c \in WordChars

IsSpace(c) == c \in {" ", NL}

LineHA == <<"#", "#", " ", "A">>
LineHB == <<"#", "#", " ", "B">>
LineHASp == <<"#", "#", " ", "A", " ">>
LineBare == <<"#", "#", " ", "-">>
LineH1 == <<"#", " ", "T">>
LineX == <<"x">>
LineBlank == <<>>

Lines == {LineHA, LineHB, LineHASp, LineBare, LineH1, LineX, LineBlank}

(***************************************************************************)
(* str.split("\n"), "\n".join(...), str.startswith, str.strip              *)
(***************************************************************************)
RECURSIVE SplitAcc(_, _, _)
SplitAcc(s, cur, acc) ==
    IF s = <<>> THEN Append(acc, cur)
    ELSE IF Head(s) = NL THEN SplitAcc(Tail(s), <<>>, Append(acc, cur))
    ELSE SplitAcc(Tail(s), Append(cur, Head(s)), acc)

split(s) == SplitAcc(s, <<>>, <<>>)

RECURSIVE join(_)
join(lines) ==
    IF lines = <<>> THEN <<>>
    ELSE IF Len(lines) = 1 THEN lines[1]
    ELSE lines[1] \o <<NL>> \o join(Tail(lines))

startswith(s, prefix) ==
    /\ Len(s) >= Len(prefix)
    /\ SubSeq(s, 1, Len(prefix)) = prefix

RECURSIVE lstrip(_)
lstrip(s) == IF s # <<>> /\ IsSpace(Head(s)) THEN lstrip(Tail(s)) ELSE s

RECURSIVE rstrip(_)
rstrip(s) ==
    IF s # <<>> /\ IsSpace(s[Len(s)]) THEN rstrip(SubSeq(s, 1, Len(s) - 1)) ELSE s

strip(s) == rstrip(lstrip(s))

\* match_h2 taking every "## " line for a heading.
match_h2_any(line) ==
    /\ Len(line) >= 3
    /\ line[1] = "#" /\ line[2] = "#" /\ line[3] = " "

\* re.match(r"^## \w", line)
match_h2(line) ==
    /\ Len(line) >= 4
    /\ line[1] = "#" /\ line[2] = "#" /\ line[3] = " "
    /\ IsWordChar(line[4])

(***************************************************************************)
(* Python dict with insertion order: a sequence of [name, content] records *)
(* with distinct names.                                                    *)
(***************************************************************************)
dict_keys(d) == {d[i].name : i \in 1..Len(d)}

dict_has(d, k) == k \in dict_keys(d)

dict_get(d, k, default) ==
    IF dict_has(d, k)
    THEN d[CHOOSE i \in 1..Len(d) : d[i].name = k].content
    ELSE default

dict_set(d, k, v) ==
    IF dict_has(d, k)
    THEN [i \in 1..Len(d) |-> IF d[i].name = k THEN [name |-> k, content |-> v] ELSE d[i]]
    ELSE Append(d, [name |-> k, content |-> v])

(***************************************************************************)
(* Files.                                                                  *)
(***************************************************************************)
NoFile == [exists |-> FALSE, text |-> <<>>]

File(text) == [exists |-> TRUE, text |-> text]

NoSection == [some |-> FALSE, val |-> <<>>]

Some(v) == [some |-> TRUE, val |-> v]

\* hashlib.sha256(content.encode()).hexdigest(): a digest that identifies
\* the content it was computed from.
compute_section_hash(content) == [sha256 |-> content]

RECURSIVE parse_loop(_, _, _, _)
parse_loop(lines, sections, current_section, current_content) ==
    LET saved == IF current_section.some
                 THEN dict_set(sections, current_section.val, join(current_content))
                 ELSE sections
    IN  IF lines = <<>> THEN saved
        ELSE LET line == Head(lines)
             IN  IF match_h2(line)
                 THEN parse_loop(Tail(lines), saved,
                                 Some(strip(SubSeq(line, 4, Len(line)))), <<>>)
                 ELSE IF current_section.some
                 THEN parse_loop(Tail(lines), sections, current_section,
                                 Append(current_content, line))
                 ELSE parse_loop(Tail(lines), sections, current_section, current_content)

\* parse_markdown_sections without the test that the file exists: read_text
\* raises FileNotFoundError, which comes out in place of the mapping.
parse_markdown_sections_unchecked(file) ==
    IF ~file.exists THEN <<[raised |-> "FileNotFoundError"]>>
    ELSE parse_loop(split(file.text), <<>>, NoSection, <<>>)

parse_markdown_sections(file) ==
    IF ~file.exists THEN <<>>
    ELSE parse_loop(split(file.text), <<>>, NoSection, <<>>)

(***************************************************************************)
(* Metadata store (utils.py).  The version, installed_at and source_repo   *)
(* fields are written once by create_metadata and carried over unchanged   *)
(* by every later rewrite; only the sections mapping is kept here.         *)
(***************************************************************************)
EmptySections == [n \in {} |-> compute_section_hash(<<>>)]

NoMetaFile == [kind |-> "absent", sections |-> EmptySections]

MalformedMetaFile == [kind |-> "malformed", sections |-> EmptySections]

NoSectionsMetaFile == [kind |-> "nosections", sections |-> EmptySections]

None == [kind |-> "None", sections |-> EmptySections]

\* create_metadata leaving out the sections whose content is empty.
create_metadata_nonempty(sections) ==
    [kind |-> "record",
     sections |-> [n \in {k \in dict_keys(sections) : dict_get(sections, k, <<>>) # <<>>} |->
                      compute_section_hash(dict_get(sections, n, <<>>))]]

create_metadata(sections) ==
    [kind |-> "record",
     sections |-> [n \in dict_keys(sections) |->
                      compute_section_hash(dict_get(sections, n, <<>>))]]

load_metadata(metadata_file) ==
    IF metadata_file.kind = "absent" THEN None
    ELSE IF metadata_file.kind = "malformed" THEN None
    ELSE metadata_file

update_metadata_hash(metadata_file, section_name, new_hash) ==
    IF metadata_file.kind = "absent" THEN metadata_file
    ELSE IF metadata_file.kind = "malformed" THEN metadata_file
    ELSE IF metadata_file.kind = "nosections" THEN metadata_file
    ELSE [metadata_file EXCEPT !.sections =
             [n \in DOMAIN metadata_file.sections \cup {section_name} |->
                 IF n = section_name THEN new_hash ELSE metadata_file.sections[n]]]

\* metadata.get("sections", {}).get(section_name)
has_hash(metadata, section_name) ==
    /\ metadata.kind = "record"
    /\ section_name \in DOMAIN metadata.sections

(***************************************************************************)
(* replace_section_in_file (update.py).                                    *)
(***************************************************************************)
Space == " "

RECURSIVE skip_to_next(_, _)
skip_to_next(lines, i) ==
    IF i > Len(lines) THEN i
    ELSE IF startswith(lines[i], <<"#", "#", Space>>) \/ startswith(lines[i], <<"#", Space>>)
    THEN i
    ELSE skip_to_next(lines, i + 1)

RECURSIVE replace_loop(_, _, _, _, _)
replace_loop(lines, i, new_lines, section_header, new_content) ==
    IF i > Len(lines) THEN new_lines
    ELSE IF lines[i] = section_header
    THEN replace_loop(lines, skip_to_next(lines, i + 1),
                      Append(new_lines, section_header) \o split(new_content),
                      section_header, new_content)
    ELSE replace_loop(lines, i + 1, Append(new_lines, lines[i]),
                      section_header, new_content)

replace_section_in_file(file, section_name, new_content) ==
    IF ~file.exists THEN file
    ELSE File(join(replace_loop(split(file.text), 1, <<>>,
                                <<"#", "#", Space>> \o section_name, new_content)))

(***************************************************************************)
(* update_file (update.py).  The loop state carries the two files, the     *)
(* three returned values and, as history, the names refreshed in the pass. *)
(***************************************************************************)
Return(file, metadata_file) ==
    [target |-> file, meta |-> metadata_file,
     updated_count |-> 0, skipped_count |-> 0, skipped_names |-> <<>>,
     refreshed |-> <<>>]

\* update_step refreshing a tracked block without comparing the hashes.
update_step_overwrite(st, section_name, template_content, metadata, current_sections, dry_run) ==
    IF ~has_hash(metadata, section_name) THEN st
    ELSE IF dry_run
         THEN [st EXCEPT !.updated_count = @ + 1,
                         !.refreshed = Append(@, section_name)]
         ELSE [st EXCEPT
                 !.target = replace_section_in_file(@, section_name, template_content),
                 !.meta = update_metadata_hash(@, section_name,
                              compute_section_hash(template_content)),
                 !.updated_count = @ + 1,
                 !.refreshed = Append(@, section_name)]

\* update_step writing in dry-run mode as well.
update_step_no_dry_run(st, section_name, template_content, metadata, current_sections, dry_run) ==
    IF ~has_hash(metadata, section_name) THEN st
    ELSE LET original_hash == metadata.sections[section_name]
             current_content == dict_get(current_sections, section_name, <<>>)
             current_hash == compute_section_hash(current_content)
         IN  IF current_hash = original_hash
             THEN [st EXCEPT
                     !.target = replace_section_in_file(@, section_name, template_content),
                     !.meta = update_metadata_hash(@, section_name,
                                  compute_section_hash(template_content)),
                     !.updated_count = @ + 1,
                     !.refreshed = Append(@, section_name)]
             ELSE [st EXCEPT !.skipped_count = @ + 1,
                             !.skipped_names = Append(@, section_name)]

\* update_step recording a hash for a block the Sync Record does not track.
update_step_adopt_new(st, section_name, template_content, metadata, current_sections, dry_run) ==
    IF ~has_hash(metadata, section_name)
    THEN IF dry_run THEN st
         ELSE [st EXCEPT !.meta = update_metadata_hash(@, section_name,
                                      compute_section_hash(template_content))]
    ELSE LET original_hash == metadata.sections[section_name]
             current_content == dict_get(current_sections, section_name, <<>>)
             current_hash == compute_section_hash(current_content)
         IN  IF current_hash = original_hash
             THEN IF dry_run
                  THEN [st EXCEPT !.updated_count = @ + 1,
                                  !.refreshed = Append(@, section_name)]
                  ELSE [st EXCEPT
                          !.target = replace_section_in_file(@, section_name, template_content),
                          !.meta = update_metadata_hash(@, section_name,
                                       compute_section_hash(template_content)),
                          !.updated_count = @ + 1,
                          !.refreshed = Append(@, section_name)]
             ELSE [st EXCEPT !.skipped_count = @ + 1,
                             !.skipped_names = Append(@, section_name)]

\* update_step taking a block that the target does not have for modified by
\* the user, whatever its recorded hash.
update_step_absent_modified(st, section_name, template_content, metadata, current_sections, dry_run) ==
    IF ~has_hash(metadata, section_name) THEN st
    ELSE LET original_hash == metadata.sections[section_name]
             current_content == dict_get(current_sections, section_name, <<>>)
             current_hash == compute_section_hash(current_content)
         IN  IF current_hash = original_hash /\ dict_has(current_sections, section_name)
             THEN IF dry_run
                  THEN [st EXCEPT !.updated_count = @ + 1,
                                  !.refreshed = Append(@, section_name)]
                  ELSE [st EXCEPT
                          !.target = replace_section_in_file(@, section_name, template_content),
                          !.meta = update_metadata_hash(@, section_name,
                                       compute_section_hash(template_content)),
                          !.updated_count = @ + 1,
                          !.refreshed = Append(@, section_name)]
             ELSE [st EXCEPT !.skipped_count = @ + 1,
                             !.skipped_names = Append(@, section_name)]

\* update_step listing in a dry run the blocks it would refresh as skipped.
update_step_dry_run_skips(st, section_name, template_content, metadata, current_sections, dry_run) ==
    IF ~has_hash(metadata, section_name) THEN st
    ELSE LET original_hash == metadata.sections[section_name]
             current_content == dict_get(current_sections, section_name, <<>>)
             current_hash == compute_section_hash(current_content)
         IN  IF current_hash = original_hash /\ ~dry_run
             THEN [st EXCEPT
                     !.target = replace_section_in_file(@, section_name, template_content),
                     !.meta = update_metadata_hash(@, section_name,
                                  compute_section_hash(template_content)),
                     !.updated_count = @ + 1,
                     !.refreshed = Append(@, section_name)]
             ELSE [st EXCEPT !.skipped_count = @ + 1,
                             !.skipped_names = Append(@, section_name)]

\* update_step counting a template block without a recorded hash as skipped.
update_step_counts_new(st, section_name, template_content, metadata, current_sections, dry_run) ==
    IF ~has_hash(metadata, section_name)
    THEN [st EXCEPT !.skipped_count = @ + 1]
    ELSE LET original_hash == metadata.sections[section_name]
             current_content == dict_get(current_sections, section_name, <<>>)
             current_hash == compute_section_hash(current_content)
         IN  IF current_hash = original_hash
             THEN IF dry_run
                  THEN [st EXCEPT !.updated_count = @ + 1,
                                  !.refreshed = Append(@, section_name)]
                  ELSE [st EXCEPT
                          !.target = replace_section_in_file(@, section_name, template_content),
                          !.meta = update_metadata_hash(@, section_name,
                                       compute_section_hash(template_content)),
                          !.updated_count = @ + 1,
                          !.refreshed = Append(@, section_name)]
             ELSE [st EXCEPT !.skipped_count = @ + 1,
                             !.skipped_names = Append(@, section_name)]

update_step(st, section_name, template_content, metadata, current_sections, dry_run) ==
    IF ~has_hash(metadata, section_name) THEN st
    ELSE LET original_hash == metadata.sections[section_name]
             current_content == dict_get(current_sections, section_name, <<>>)
             current_hash == compute_section_hash(current_content)
         IN  IF current_hash = original_hash
             THEN IF dry_run
                  THEN [st EXCEPT !.updated_count = @ + 1,
                                  !.refreshed = Append(@, section_name)]
                  ELSE [st EXCEPT
                          !.target = replace_section_in_file(@, section_name, template_content),
                          !.meta = update_metadata_hash(@, section_name,
                                       compute_section_hash(template_content)),
                          !.updated_count = @ + 1,
                          !.refreshed = Append(@, section_name)]
             ELSE [st EXCEPT !.skipped_count = @ + 1,
                             !.skipped_names = Append(@, section_name)]

RECURSIVE update_loop(_, _, _, _, _, _)
update_loop(st, template_sections, k, metadata, current_sections, dry_run) ==
    IF k > Len(template_sections) THEN st
    ELSE update_loop(update_step(st, template_sections[k].name,
                                 template_sections[k].content,
                                 metadata, current_sections, dry_run),
                     template_sections, k + 1, metadata, current_sections, dry_run)

\* update_file going on without a Sync Record, as if every block of the
\* target had been installed as it stands.
update_file_untracked(file, metadata_file, template_file, dry_run) ==
    IF ~file.exists THEN Return(file, metadata_file)
    ELSE IF ~template_file.exists THEN Return(file, metadata_file)
    ELSE LET loaded == load_metadata(metadata_file)
             metadata == IF loaded = None
                         THEN create_metadata(parse_markdown_sections(file))
                         ELSE loaded
         IN  update_loop(Return(file, metadata_file),
                         parse_markdown_sections(template_file), 1, metadata,
                         parse_markdown_sections(file), dry_run)

update_file(file, metadata_file, template_file, dry_run) ==
    IF ~file.exists THEN Return(file, metadata_file)
    ELSE LET metadata == load_metadata(metadata_file)
         IN  IF metadata = None THEN Return(file, metadata_file)
             ELSE IF ~template_file.exists THEN Return(file, metadata_file)
             ELSE update_loop(Return(file, metadata_file),
                              parse_markdown_sections(template_file), 1, metadata,
                              parse_markdown_sections(file), dry_run)

(***************************************************************************)
(* update_file when Path.write_text raises OSError (PermissionError) for   *)
(* the files named in unwritable.  replace_section_in_file does not catch  *)
(* the error, so it leaves update_file (raised) with the target as it was; *)
(* update_metadata_hash catches OSError and returns.  failed holds the     *)
(* names whose document write or fingerprint write failed.                 *)
(***************************************************************************)
ReturnIO(file, metadata_file) ==
    [target |-> file, meta |-> metadata_file,
     updated_count |-> 0, skipped_count |-> 0, skipped_names |-> <<>>,
     refreshed |-> <<>>, raised |-> FALSE, failed |-> {}]

update_step_io(st, section_name, template_content, metadata, current_sections, dry_run, unwritable) ==
    IF st.raised THEN st
    ELSE IF ~has_hash(metadata, section_name) THEN st
    ELSE LET original_hash == metadata.sections[section_name]
             current_content == dict_get(current_sections, section_name, <<>>)
             current_hash == compute_section_hash(current_content)
         IN  IF current_hash = original_hash
             THEN IF dry_run
                  THEN [st EXCEPT !.updated_count = @ + 1,
                                  !.refreshed = Append(@, section_name)]
                  ELSE IF "target" \in unwritable
                  THEN [st EXCEPT !.raised = TRUE,
                                  !.failed = @ \cup {section_name}]
                  ELSE [st EXCEPT
                          !.target = replace_section_in_file(@, section_name, template_content),
                          !.meta = IF "meta" \in unwritable THEN @
                                   ELSE update_metadata_hash(@, section_name,
                                            compute_section_hash(template_content)),
                          !.failed = IF "meta" \in unwritable /\ st.meta.kind = "record"
                                     THEN @ \cup {section_name} ELSE @,
                          !.updated_count = @ + 1,
                          !.refreshed = Append(@, section_name)]
             ELSE [st EXCEPT !.skipped_count = @ + 1,
                             !.skipped_names = Append(@, section_name)]

RECURSIVE update_loop_io(_, _, _, _, _, _, _)
update_loop_io(st, template_sections, k, metadata, current_sections, dry_run, unwritable) ==
    IF k > Len(template_sections) THEN st
    ELSE update_loop_io(update_step_io(st, template_sections[k].name,
                                       template_sections[k].content,
                                       metadata, current_sections, dry_run, unwritable),
                        template_sections, k + 1, metadata, current_sections, dry_run,
                        unwritable)

update_file_io(file, metadata_file, template_file, dry_run, unwritable) ==
    IF ~file.exists THEN ReturnIO(file, metadata_file)
    ELSE LET metadata == load_metadata(metadata_file)
         IN  IF metadata = None THEN ReturnIO(file, metadata_file)
             ELSE IF ~template_file.exists THEN ReturnIO(file, metadata_file)
             ELSE update_loop_io(ReturnIO(file, metadata_file),
                                 parse_markdown_sections(template_file), 1, metadata,
                                 parse_markdown_sections(file), dry_run, unwritable)

(***************************************************************************)
(* update_global_files (update.py).  A tool of the configuration is kept   *)
(* with the three files its entry names: enabled is its "enabled" value,   *)
(* has_path says that it has a "global" entry with a non-empty "path".     *)
(* The targets of different tools are different files.  The loop state     *)
(* carries the tools gone through, with their files as the pass left them, *)
(* and what update_file returned for each of them.                         *)
(***************************************************************************)
NotProcessed ==
    [processed |-> FALSE, updated |-> 0, skipped |-> 0, skipped_names |-> <<>>]

Processed(r) ==
    [processed |-> TRUE, updated |-> r.updated_count, skipped |-> r.skipped_count,
     skipped_names |-> r.skipped_names]

\* update_global_step giving up on the tools that come after a tool for which
\* update_file returned (0, 0, []).
update_global_step_stop(st, tool_config, dry_run) ==
    IF ~tool_config.enabled
    THEN [tools |-> Append(st.tools, tool_config),
          outcomes |-> Append(st.outcomes, NotProcessed)]
    ELSE IF ~tool_config.has_path
    THEN [tools |-> Append(st.tools, tool_config),
          outcomes |-> Append(st.outcomes, NotProcessed)]
    ELSE IF \E j \in 1..Len(st.outcomes) :
               /\ st.outcomes[j].processed
               /\ st.outcomes[j].updated = 0
               /\ st.outcomes[j].skipped = 0
    THEN [tools |-> Append(st.tools, tool_config),
          outcomes |-> Append(st.outcomes, NotProcessed)]
    ELSE LET r == update_file(tool_config.target, tool_config.meta,
                              tool_config.template, dry_run)
         IN  [tools |-> Append(st.tools, [tool_config EXCEPT !.target = r.target,
                                                            !.meta = r.meta]),
              outcomes |-> Append(st.outcomes, Processed(r))]

update_global_step(st, tool_config, dry_run) ==
    IF ~tool_config.enabled
    THEN [tools |-> Append(st.tools, tool_config),
          outcomes |-> Append(st.outcomes, NotProcessed)]
    ELSE IF ~tool_config.has_path
    THEN [tools |-> Append(st.tools, tool_config),
          outcomes |-> Append(st.outcomes, NotProcessed)]
    ELSE LET r == update_file(tool_config.target, tool_config.meta,
                              tool_config.template, dry_run)
         IN  [tools |-> Append(st.tools, [tool_config EXCEPT !.target = r.target,
                                                            !.meta = r.meta]),
              outcomes |-> Append(st.outcomes, Processed(r))]

RECURSIVE update_global_loop(_, _, _, _)
update_global_loop(st, tools, k, dry_run) ==
    IF k > Len(tools) THEN st
    ELSE update_global_loop(update_global_step(st, tools[k], dry_run),
                            tools, k + 1, dry_run)

update_global_files(tools, dry_run) ==
    update_global_loop([tools |-> <<>>, outcomes |-> <<>>], tools, 1, dry_run)

(***************************************************************************)
(* What the parser reads back from a file for one block.                   *)
(***************************************************************************)
ReadBack(file, name) ==
    LET sections == parse_markdown_sections(file)
    IN  IF dict_has(sections, name) THEN Some(dict_get(sections, name, <<>>))
        ELSE NoSection

SeqToSet(s) == {s[i] : i \in 1..Len(s)}

(***************************************************************************)
(* Single-line edits of a text, as a person with an editor makes them: one *)
(* line is overwritten by a heading or a body line.  Overwriting a heading *)
(* by a body line removes the section, overwriting a body line by a        *)
(* heading adds one.                                                       *)
(***************************************************************************)
EditLines == {LineHA, LineHB, LineHASp, LineH1, LineX}

LineEdits(text) ==
    LET ls == split(text)
    IN  {join([ls EXCEPT ![i] = l]) : i \in 1..Len(ls), l \in EditLines}

\* The templates a run starts from: two sections with a body each, and a
\* section followed by a level-1 heading.
InitTemplates ==
    { join(<<LineHA, LineX, LineHB, LineX>>),
      join(<<LineHA, LineX, LineH1>>) }

(***************************************************************************)
(* State machine.                                                          *)
(***************************************************************************)
\* result: the operation that ran last with its arguments and what it
\* returned; prior holds the names the Sync Record tracked before it ran.
NoResult == [op |-> "none", dry_run |-> FALSE,
             updated |-> 0, skipped |-> 0, skipped_names |-> <<>>, refreshed |-> <<>>,
             prior |-> {}, arg |-> <<>>]

NothingWritten == [n \in {} |-> NoSection]

\* No batch over the configured tools has been started.
NoBatch == [tools |-> <<>>, ran |-> FALSE, dry_run |-> FALSE, outcomes |-> <<>>]

Tracked(metadata_file) ==
    IF metadata_file.kind = "record" THEN DOMAIN metadata_file.sections ELSE {}

Init ==
    /\ template \in {File(d) : d \in InitTemplates}
    /\ target = NoFile
    /\ meta = NoMetaFile
    /\ result = NoResult
    /\ written = NothingWritten
    /\ edits = 0
    /\ batch = NoBatch

\* install_file: copy the template over the target, then record the hashes
\* of the sections parsed from the freshly written target.
Install ==
    /\ template.exists
    /\ target' = template
    /\ \E sections \in {parse_markdown_sections(template)} :
          /\ meta' = create_metadata(sections)
          /\ written' = [n \in dict_keys(sections) |-> Some(dict_get(sections, n, <<>>))]
    /\ result' = [NoResult EXCEPT !.op = "install", !.prior = Tracked(meta)]
    /\ UNCHANGED <<template, edits, batch>>

\* update_file on the target.  A pass is not started on a target of more than
\* MaxTargetLines lines (a heading that replace_section_in_file matches but the
\* parser shadows lets the file grow without limit).
Update(dry_run) ==
    \E r \in {update_file(target, meta, template, dry_run)} :
        /\ Len(split(target.text)) <= MaxTargetLines
        /\ target' = r.target
        /\ meta' = r.meta
        /\ result' = [op |-> "update", dry_run |-> dry_run,
                      updated |-> r.updated_count, skipped |-> r.skipped_count,
                      skipped_names |-> r.skipped_names, refreshed |-> r.refreshed,
                      prior |-> Tracked(meta), arg |-> <<>>]
        /\ written' = IF dry_run THEN written
                      ELSE [n \in DOMAIN written \cup SeqToSet(r.refreshed) |->
                               IF n \in SeqToSet(r.refreshed) THEN ReadBack(r.target, n)
                               ELSE written[n]]
        /\ UNCHANGED <<template, edits, batch>>

UpdateRun == Update(FALSE)

UpdateDryRun == Update(TRUE)

\* The user edits the installed document.
UserEdit ==
    /\ target.exists
    /\ edits < MaxEdits
    /\ \E t \in LineEdits(target.text) :
          /\ t # target.text
          /\ target' = File(t)
    /\ edits' = edits + 1
    /\ result' = [NoResult EXCEPT !.op = "edit"]
    /\ UNCHANGED <<template, meta, written, batch>>

\* A new version of the template is published.
TemplateChange ==
    /\ template.exists
    /\ edits < MaxEdits
    /\ \E t \in LineEdits(template.text) :
          /\ t # template.text
          /\ template' = File(t)
    /\ edits' = edits + 1
    /\ result' = [NoResult EXCEPT !.op = "template"]
    /\ UNCHANGED <<target, meta, written, batch>>

Next ==
    \/ Install
    \/ UpdateRun
    \/ UpdateDryRun
    \/ UserEdit
    \/ TemplateChange

Spec == Init /\ [][Next]_vars

(***************************************************************************)
(* The same machine with no user edit of the target.                       *)
(***************************************************************************)
NextNoUserEdit ==
    \/ Install
    \/ UpdateRun
    \/ UpdateDryRun
    \/ TemplateChange

SpecNoUserEdit == Init /\ [][NextNoUserEdit]_vars

(***************************************************************************)
(* The machine with the files removed or damaged from outside and with the *)
(* Metadata Store's update_one called on its own.                          *)
(***************************************************************************)
MetadataDamage ==
    /\ edits < MaxEdits
    /\ \E m \in {NoMetaFile, MalformedMetaFile, NoSectionsMetaFile} :
          /\ m # meta
          /\ meta' = m
    /\ edits' = edits + 1
    /\ result' = [NoResult EXCEPT !.op = "damage"]
    /\ UNCHANGED <<template, target, written, batch>>

TargetRemoved ==
    /\ target.exists
    /\ edits < MaxEdits
    /\ target' = NoFile
    /\ edits' = edits + 1
    /\ result' = [NoResult EXCEPT !.op = "remove"]
    /\ UNCHANGED <<template, meta, written, batch>>

TemplateRemoved ==
    /\ template.exists
    /\ edits < MaxEdits
    /\ template' = NoFile
    /\ edits' = edits + 1
    /\ result' = [NoResult EXCEPT !.op = "remove"]
    /\ UNCHANGED <<target, meta, written, batch>>

HashArgs == {compute_section_hash(<<>>), compute_section_hash(LineX)}

NameArgs == {<<"A">>, <<"B">>}

UpdateMetadataHash ==
    /\ edits < MaxEdits
    /\ \E section_name \in NameArgs, new_hash \in HashArgs :
          /\ meta' = update_metadata_hash(meta, section_name, new_hash)
          /\ result' = [NoResult EXCEPT !.op = "update_metadata_hash",
                                        !.prior = Tracked(meta),
                                        !.arg = section_name]
    /\ edits' = edits + 1
    /\ UNCHANGED <<template, target, written, batch>>

NextStore ==
    \/ Install
    \/ UpdateRun
    \/ UpdateDryRun
    \/ UserEdit
    \/ TemplateChange
    \/ MetadataDamage
    \/ TargetRemoved
    \/ TemplateRemoved
    \/ UpdateMetadataHash

SpecStore == Init /\ [][NextStore]_vars

(***************************************************************************)
(* The machine with update passes during which the target, the Sync Record *)
(* or both cannot be written.                                              *)
(***************************************************************************)
UpdateWriteFailure ==
    \E dry_run \in BOOLEAN, unwritable \in (SUBSET {"target", "meta"}) \ {{}} :
      \E r \in {update_file_io(target, meta, template, dry_run, unwritable)} :
        /\ Len(split(target.text)) <= MaxTargetLines
        /\ target' = r.target
        /\ meta' = r.meta
        /\ result' = [op |-> IF r.raised THEN "raised" ELSE "update",
                      dry_run |-> dry_run,
                      updated |-> r.updated_count, skipped |-> r.skipped_count,
                      skipped_names |-> r.skipped_names, refreshed |-> r.refreshed,
                      prior |-> Tracked(meta), arg |-> <<>>,
                      unwritable |-> unwritable, failed |-> r.failed]
        /\ written' = IF dry_run THEN written
                      ELSE [n \in DOMAIN written \cup SeqToSet(r.refreshed) |->
                               IF n \in SeqToSet(r.refreshed) THEN ReadBack(r.target, n)
                               ELSE written[n]]
        /\ UNCHANGED <<template, edits, batch>>

NextIO ==
    \/ Install
    \/ UpdateRun
    \/ UpdateDryRun
    \/ UserEdit
    \/ TemplateChange
    \/ UpdateWriteFailure

SpecIO == Init /\ [][NextIO]_vars

(***************************************************************************)
(* The batch machine: a configuration of up to MaxTools tools, each with   *)
(* its files in one of the conditions a pass can meet, and one run of      *)
(* update_global_files over it.                                            *)
(***************************************************************************)
BatchOld == File(join(<<LineHA, LineX>>))

BatchNew == File(join(<<LineHA, LineX, LineX>>))

InstalledFrom(file) == create_metadata(parse_markdown_sections(file))

\* In sync with a newer template, edited by the user, target missing, Sync
\* Record missing or not JSON, template missing.
ToolFiles ==
    { [target |-> BatchOld, meta |-> InstalledFrom(BatchOld), template |-> BatchNew],
      [target |-> BatchNew, meta |-> InstalledFrom(BatchOld), template |-> BatchOld],
      [target |-> NoFile, meta |-> InstalledFrom(BatchOld), template |-> BatchNew],
      [target |-> BatchOld, meta |-> NoMetaFile, template |-> BatchNew],
      [target |-> BatchOld, meta |-> MalformedMetaFile, template |-> BatchNew],
      [target |-> BatchOld, meta |-> InstalledFrom(BatchOld), template |-> NoFile] }

ToolConfigs ==
    { [enabled |-> e, has_path |-> p,
       target |-> f.target, meta |-> f.meta, template |-> f.template] :
         e \in BOOLEAN, p \in BOOLEAN, f \in ToolFiles }

RECURSIVE SeqsUpTo(_, _)
SeqsUpTo(S, n) ==
    IF n = 0 THEN {<<>>}
    ELSE LET shorter == SeqsUpTo(S, n - 1)
         IN  shorter \cup {Append(q, x) : q \in shorter, x \in S}

InitBatch ==
    /\ template = NoFile
    /\ target = NoFile
    /\ meta = NoMetaFile
    /\ result = NoResult
    /\ written = NothingWritten
    /\ edits = 0
    /\ \E tools \in SeqsUpTo(ToolConfigs, MaxTools) \ {<<>>} :
          batch = [NoBatch EXCEPT !.tools = tools]

UpdateGlobalFiles ==
    /\ ~batch.ran
    /\ \E dry_run \in BOOLEAN :
        \E r \in {update_global_files(batch.tools, dry_run)} :
          batch' = [tools |-> r.tools, ran |-> TRUE, dry_run |-> dry_run,
                    outcomes |-> r.outcomes]
    /\ UNCHANGED <<template, target, meta, result, written, edits>>

NextBatch == UpdateGlobalFiles

SpecBatch == InitBatch /\ [][NextBatch]_vars

(***************************************************************************)
(* The machine with the user putting an edited block back: a one-line edit *)
(* after which a tracked block, which the user had changed from what was   *)
(* last written for it and which did not have its recorded fingerprint,    *)
(* has that fingerprint again.  arg names the block.                       *)
(***************************************************************************)
UserRestore ==
    /\ target.exists
    /\ \E current \in {parse_markdown_sections(target)} :
       \E n \in Tracked(meta) \cap DOMAIN written :
          /\ dict_has(current, n) # written[n].some
                \/ dict_get(current, n, <<>>) # written[n].val
          /\ compute_section_hash(dict_get(current, n, <<>>)) # meta.sections[n]
          /\ \E t \in LineEdits(target.text) :
             \E restored \in {parse_markdown_sections(File(t))} :
                /\ dict_has(restored, n)
                /\ compute_section_hash(dict_get(restored, n, <<>>)) = meta.sections[n]
                /\ target' = File(t)
                /\ result' = [NoResult EXCEPT !.op = "restore", !.arg = n]
    /\ UNCHANGED <<template, meta, written, edits, batch>>

NextRestore ==
    \/ Install
    \/ UpdateRun
    \/ UpdateDryRun
    \/ UserEdit
    \/ TemplateChange
    \/ UserRestore

SpecRestore == Init /\ [][NextRestore]_vars

(***************************************************************************)
(* The parser machine: parse_markdown_sections applied to a path that      *)
(* holds no file or a document of up to MaxParseLines lines, each line a   *)
(* heading of either level, a heading with trailing whitespace, a "## "    *)
(* line without a word character, a body line or a blank line.             *)
(***************************************************************************)
Documents ==
    {join(ls) : ls \in SeqsUpTo(Lines, MaxParseLines) \ {<<>>}}

InitParse ==
    /\ template = NoFile
    /\ target \in {File(d) : d \in Documents} \cup {NoFile}
    /\ meta = NoMetaFile
    /\ result = NoResult
    /\ written = NothingWritten
    /\ edits = 0
    /\ batch = NoBatch

Parse ==
    /\ result.op = "none"
    /\ result' = [op |-> "parse", sections |-> parse_markdown_sections(target)]
                     @@ NoResult
    /\ UNCHANGED <<template, target, meta, written, edits, batch>>

NextParse == Parse

SpecParse == InitParse /\ [][NextParse]_vars

(***************************************************************************)
(* The round-trip machine: a sequence of up to MaxBlocks (name, content)   *)
(* pairs with distinct names is written out as "## " + name + "\n" +       *)
(* content blocks, put together with nothing or with a newline between     *)
(* two blocks, and the document is parsed.                                 *)
(***************************************************************************)
BlockNames == {<<"A">>, <<"B">>, <<"A", " ">>, <<"-">>}

BlockContents ==
    {join(ls) : ls \in {<<LineBlank>>, <<LineX>>, <<LineX, LineBlank>>,
                        <<LineBlank, LineX>>, <<LineH1>>, <<LineBare>>, <<LineHB>>}}

Pairs == {[name |-> n, content |-> c] : n \in BlockNames, c \in BlockContents}

DistinctNames(pairs) ==
    \A i \in 1..Len(pairs), j \in 1..Len(pairs) : i # j => pairs[i].name # pairs[j].name

Block(pair) == <<"#", "#", " ">> \o pair.name \o <<NL>> \o pair.content

RECURSIVE BuildDocument(_, _)
BuildDocument(pairs, sep) ==
    IF pairs = <<>> THEN <<>>
    ELSE IF Len(pairs) = 1 THEN Block(pairs[1])
    ELSE Block(pairs[1]) \o sep \o BuildDocument(Tail(pairs), sep)

InitBlocks ==
    /\ template = NoFile
    /\ target = NoFile
    /\ meta = NoMetaFile
    /\ \E pairs \in {q \in SeqsUpTo(Pairs, MaxBlocks) : DistinctNames(q)} :
          result = [op |-> "blocks", pairs |-> pairs] @@ NoResult
    /\ written = NothingWritten
    /\ edits = 0
    /\ batch = NoBatch

ParseBlocks ==
    /\ result.op = "blocks"
    /\ \E sep \in {<<>>, <<NL>>} :
          /\ target' = File(BuildDocument(result.pairs, sep))
          /\ result' = [op |-> "parse_blocks", pairs |-> result.pairs, sep |-> sep,
                        sections |-> parse_markdown_sections(
                                        File(BuildDocument(result.pairs, sep)))]
                           @@ NoResult
    /\ UNCHANGED <<template, meta, written, edits, batch>>

NextBlocks == ParseBlocks

SpecBlocks == InitBlocks /\ [][NextBlocks]_vars

(***************************************************************************)
(* The machine started from a template with an empty block, so that the    *)
(* Sync Record holds the fingerprint of the empty string.                  *)
(***************************************************************************)
InitDeleted ==
    /\ template = File(join(<<LineHA, LineHB, LineX>>))
    /\ target = NoFile
    /\ meta = NoMetaFile
    /\ result = NoResult
    /\ written = NothingWritten
    /\ edits = 0
    /\ batch = NoBatch

SpecDeleted == InitDeleted /\ [][Next]_vars

(***************************************************************************)
(* Vocabulary of the properties.                                           *)
(***************************************************************************)
TemplateSections == parse_markdown_sections(template)

TemplateNames == dict_keys(TemplateSections)

TemplateContent(n) == dict_get(TemplateSections, n, <<>>)

CurrentContent(n) == dict_get(parse_markdown_sections(target), n, <<>>)

\* The pass gets past its three early returns.
ReachesDecision ==
    /\ target.exists
    /\ load_metadata(meta) # None
    /\ template.exists

Eligible(n) ==
    /\ n \in Tracked(meta)
    /\ compute_section_hash(CurrentContent(n)) = meta.sections[n]

UserModified(n) ==
    /\ n \in Tracked(meta)
    /\ compute_section_hash(CurrentContent(n)) # meta.sections[n]

\* The step just taken is an update pass / a pass that writes / an install.
UpdateStep == result'.op = "update"

WritingStep == result'.op = "update" /\ ~result'.dry_run

DryRunStep == result'.op = "update" /\ result'.dry_run

InstallStep == result'.op = "install"

\* Block n of the target and its recorded fingerprint are as before the step.
Kept(n) ==
    /\ (target' = target \/ ReadBack(target', n) = ReadBack(target, n))
    /\ n \in Tracked(meta')
    /\ meta'.sections[n] = meta.sections[n]

Listed(n) == n \in SeqToSet(result'.skipped_names)

(***************************************************************************)
(* C1  Modified-section protection.                                        *)
(***************************************************************************)
\* C1 as stated: every tracked block of the target whose content no longer
\* has the recorded fingerprint keeps its text and its recorded fingerprint
\* through an update pass, and its name is in the returned skipped list.
C1_EveryModifiedBlockListed ==
    [][UpdateStep =>
         \A n \in Tracked(meta) :
            (target.exists /\ dict_has(parse_markdown_sections(target), n) /\ UserModified(n))
               => (Kept(n) /\ Listed(n))]_vars

\* C1 (amended): every tracked name whose content in the target no longer has
\* the recorded fingerprint keeps its text and its recorded fingerprint
\* through an update pass, dry-run or not; its name is in the returned skipped
\* list exactly when the template still has a block of that name.
C1_ModifiedProtection ==
    [][UpdateStep =>
         \A n \in Tracked(meta) :
            (target.exists /\ UserModified(n))
               => (Kept(n) /\ (Listed(n) <=> n \in TemplateNames))]_vars

\* A writing pass that skipped one block and rewrote another.
C1_Witness ==
    /\ result.op = "update"
    /\ ~result.dry_run
    /\ result.skipped > 0
    /\ result.updated > 0
    /\ \E n \in SeqToSet(result.skipped_names) : UserModified(n)

(***************************************************************************)
(* C2  Refresh postcondition.                                              *)
(***************************************************************************)
\* C2: after a writing pass, every template block whose recorded fingerprint
\* was that of the target's content at the start of the pass reads back from
\* the target as exactly the template's content, and the Sync Record holds
\* the fingerprint of that template content.
C2_RefreshPostcondition ==
    [][(WritingStep /\ ReachesDecision) =>
         \A n \in TemplateNames :
            Eligible(n) =>
               /\ ReadBack(target', n) = Some(TemplateContent(n))
               /\ n \in Tracked(meta')
               /\ meta'.sections[n] = compute_section_hash(TemplateContent(n))]_vars

(***************************************************************************)
(* C3  Idempotent refresh.                                                 *)
(***************************************************************************)
\* C3: an update pass that directly follows a writing update pass, with no
\* edit and no template change in between, returns a refreshed count of zero.
C3_SecondRunRefreshesNothing ==
    [][(result.op = "update" /\ ~result.dry_run /\ UpdateStep)
          => result'.updated = 0]_vars

(***************************************************************************)
(* C4  Sync Record invariant.                                              *)
(***************************************************************************)
\* C4: every fingerprint in the Sync Record is the fingerprint of the content
\* this system last wrote into the target for that block, as the parser read
\* the block back after the write.
C4_SyncRecordInvariant ==
    \A n \in Tracked(meta) :
       /\ n \in DOMAIN written
       /\ written[n].some
       /\ meta.sections[n] = compute_section_hash(written[n].val)

(***************************************************************************)
(* C5  No false user-modified verdicts.                                    *)
(***************************************************************************)
\* C5: when the user never edits the target, every update pass returns a
\* skipped count of zero.
C5_NoFalseModified ==
    [][UpdateStep => (result'.skipped = 0 /\ result'.skipped_names = <<>>)]_vars

(***************************************************************************)
(* C6  New-section detection.                                              *)
(***************************************************************************)
\* C6: a template block whose name has no fingerprint in the Sync Record is
\* left alone by an update pass (its block in the target reads back the same,
\* it is neither refreshed nor skipped, and the two counts together do not
\* exceed the number of the other template blocks), and no name gains a
\* fingerprint in a step that is not an install, so the block is new again
\* on every later pass.
C6_NewSectionNeverWritten ==
    [][/\ UpdateStep =>
             \A n \in TemplateNames \ Tracked(meta) :
                /\ ReadBack(target', n) = ReadBack(target, n)
                /\ n \notin SeqToSet(result'.refreshed)
                /\ n \notin SeqToSet(result'.skipped_names)
                /\ result'.updated + result'.skipped
                      <= Cardinality(TemplateNames \ {n})
       /\ ~InstallStep => Tracked(meta') \subseteq Tracked(meta)]_vars

\* A writing pass that rewrote a tracked block while the template has a block
\* the Sync Record does not track.
C6_Witness ==
    /\ result.op = "update"
    /\ ~result.dry_run
    /\ result.updated > 0
    /\ target # template
    /\ \E n \in TemplateNames : n \notin Tracked(meta)

(***************************************************************************)
(* C7  Untracked protection.                                               *)
(***************************************************************************)
\* C7: when the target exists and its Sync Record is absent or is not valid
\* JSON, an update pass returns (0, 0, []) and leaves the target's text
\* unchanged, whatever the template contains.
C7_UntrackedProtection ==
    [][(UpdateStep /\ target.exists /\ meta.kind \in {"absent", "malformed"})
          => /\ result'.updated = 0
             /\ result'.skipped = 0
             /\ result'.skipped_names = <<>>
             /\ target' = target
             /\ meta' = meta]_vars

\* An update pass has run on an untracked target that differs from a
\* template with sections.
C7_Witness ==
    /\ result.op = "update"
    /\ ~result.dry_run
    /\ target.exists
    /\ meta.kind \in {"absent", "malformed"}
    /\ template.exists
    /\ TemplateNames # {}
    /\ parse_markdown_sections(target) # TemplateSections

(***************************************************************************)
(* C8  Dry-run frame.                                                      *)
(***************************************************************************)
\* C8: a dry-run pass leaves the target's text and the whole Sync Record as
\* they were, and its refreshed count is the number of template blocks whose
\* content in the target has the recorded fingerprint.
C8_DryRunFrame ==
    [][DryRunStep =>
          /\ target' = target
          /\ meta' = meta
          /\ result'.updated =
                IF ReachesDecision
                THEN Cardinality({n \in TemplateNames : Eligible(n)})
                ELSE 0]_vars

\* A dry-run pass has counted a block whose content differs from the
\* template's.
C8_Witness ==
    /\ result.op = "update"
    /\ result.dry_run
    /\ result.updated > 0
    /\ \E n \in SeqToSet(result.refreshed) : CurrentContent(n) # TemplateContent(n)

(***************************************************************************)
(* C9  Install postcondition.                                              *)
(***************************************************************************)
\* C9: after install the Sync Record tracks exactly the names parsed from the
\* template, each with the fingerprint of the template's content for that
\* block; no other entry of an earlier record is left.
C9_InstallPostcondition ==
    [][InstallStep =>
          /\ meta'.kind = "record"
          /\ DOMAIN meta'.sections = TemplateNames
          /\ \A n \in TemplateNames :
                meta'.sections[n] = compute_section_hash(TemplateContent(n))]_vars

\* An install has replaced a record that tracked a name the template no
\* longer has.
C9_Witness ==
    /\ result.op = "install"
    /\ result.prior \ TemplateNames # {}
    /\ Tracked(meta) = TemplateNames
    /\ TemplateNames # {}

(***************************************************************************)
(* C10  update_one with nothing to update.                                 *)
(***************************************************************************)
\* C10: update_metadata_hash leaves the stored record as it was when no
\* record exists or when the given name is not a key of its sections.
C10_UpdateOneNoOp ==
    [][(result'.op = "update_metadata_hash"
          /\ (meta.kind = "absent" \/ result'.arg \notin Tracked(meta)))
          => meta' = meta]_vars

(***************************************************************************)
(* C11  Write failures are not masked.                                     *)
(***************************************************************************)
\* C11: when a write of the target or of the Sync Record fails during a
\* writing pass, the pass ends by raising to its caller; a pass that returns
\* normally counts no block whose document write or fingerprint write failed.
C11_WriteFailuresNotMasked ==
    [][("failed" \in DOMAIN result' /\ ~result'.dry_run) =>
          /\ result'.failed # {} => result'.op = "raised"
          /\ result'.op = "update" =>
                SeqToSet(result'.refreshed) \cap result'.failed = {}]_vars

(***************************************************************************)
(* C12  Batch isolation.                                                   *)
(***************************************************************************)
\* update_file returns early for this tool: target missing, Sync Record
\* missing or unreadable, or template missing.
Aborts(tool_config) ==
    \/ ~tool_config.target.exists
    \/ load_metadata(tool_config.meta) = None
    \/ ~tool_config.template.exists

Configured(tool_config) == tool_config.enabled /\ tool_config.has_path

\* C12: in a run of update_global_files, every configured tool that comes
\* after a configured tool whose pass aborted is still processed: what is
\* returned for it and what is left in its files are what update_file gives
\* for that tool on its own.
C12_BatchIsolation ==
    [][(~batch.ran /\ batch'.ran) =>
          \A j \in 1..Len(batch.tools), i \in 1..Len(batch.tools) :
             (j < i /\ Configured(batch.tools[j]) /\ Aborts(batch.tools[j])
                    /\ Configured(batch.tools[i]))
                => LET alone == update_file(batch.tools[i].target, batch.tools[i].meta,
                                            batch.tools[i].template, batch'.dry_run)
                   IN  /\ Len(batch'.outcomes) = Len(batch.tools)
                       /\ batch'.outcomes[i] = Processed(alone)
                       /\ batch'.tools[i].target = alone.target
                       /\ batch'.tools[i].meta = alone.meta]_vars

\* A writing batch has refreshed a block of a tool that comes after a tool
\* whose target is missing.
C12_Witness ==
    /\ batch.ran
    /\ ~batch.dry_run
    /\ \E j \in 1..Len(batch.tools), i \in 1..Len(batch.tools) :
          /\ j < i
          /\ Configured(batch.tools[j])
          /\ ~batch.tools[j].target.exists
          /\ batch.outcomes[j].processed
          /\ batch.outcomes[i].processed
          /\ batch.outcomes[i].updated > 0
          /\ batch.tools[i].target = batch.tools[i].template

(***************************************************************************)
(* C13  Self-healing.                                                      *)
(***************************************************************************)
\* C13: the update pass that follows the user's restoring a tracked block to
\* the content of its recorded fingerprint counts the block as refreshed and
\* not as skipped when the template has a block of that name, and a writing
\* pass leaves the block reading back as the template's content.
C13_SelfHealing ==
    [][(result.op = "restore" /\ UpdateStep /\ result.arg \in TemplateNames) =>
          /\ result.arg \in SeqToSet(result'.refreshed)
          /\ result.arg \notin SeqToSet(result'.skipped_names)
          /\ ~result'.dry_run =>
                ReadBack(target', result.arg) = Some(TemplateContent(result.arg))]_vars

(***************************************************************************)
(* C14  Parser section boundary.                                           *)
(***************************************************************************)
H2Marker == <<"#", "#", Space>>

H1Marker == <<"#", Space>>

Boundary(line) == startswith(line, H2Marker) \/ startswith(line, H1Marker)

\* The lines of the parsed document that match the heading pattern.
HeadingNames(file) ==
    {strip(SubSeq(l, 4, Len(l))) : l \in {x \in SeqToSet(split(file.text)) : match_h2(x)}}

\* C14: no section content returned by the parser holds a line that begins
\* with "## " or with "# ", and the sections returned are named by exactly
\* the "## " lines of the document that go on with a word character.
C14_ParserSectionBoundary ==
    (result.op = "parse" /\ target.exists) =>
       /\ \A i \in 1..Len(result.sections) :
             \A l \in SeqToSet(split(result.sections[i].content)) : ~Boundary(l)
       /\ dict_keys(result.sections) = HeadingNames(target)

(***************************************************************************)
(* C15  Parser round-trip.                                                 *)
(***************************************************************************)
\* C15 as stated: parsing the blocks of any pairs with distinct names, put
\* together with nothing between them, returns those pairs in order.
C15_RoundTripConcatenated ==
    (result.op = "parse_blocks" /\ result.sep = <<>>) =>
       result.sections = result.pairs

WellFormedName(name) ==
    /\ name # <<>>
    /\ IsWordChar(name[1])
    /\ strip(name) = name
    /\ NL \notin SeqToSet(name)

\* The line is "## " followed by a word character.
OpensSection(l) ==
    /\ Len(l) >= 4
    /\ SubSeq(l, 1, 3) = H2Marker
    /\ l[4] \in WordChars

WellFormedContent(content) ==
    \A l \in SeqToSet(split(content)) : ~OpensSection(l)

WellFormed(pairs) ==
    \A i \in 1..Len(pairs) :
       WellFormedName(pairs[i].name) /\ WellFormedContent(pairs[i].content)

\* C15 (amended): when every name begins with a word character and has no
\* whitespace at either end, and no content has a line that opens a named
\* section, parsing the blocks put together with a newline between two
\* blocks returns exactly those pairs, contents identical, in order.
C15_RoundTrip ==
    (result.op = "parse_blocks" /\ result.sep = <<NL>> /\ WellFormed(result.pairs)) =>
       result.sections = result.pairs

\* Two well-formed blocks have been parsed back, one of them with a "## "
\* line without a word character in its content, one ending in a blank line.
C15_Witness ==
    /\ result.op = "parse_blocks"
    /\ result.sep = <<NL>>
    /\ WellFormed(result.pairs)
    /\ Len(result.pairs) = 2
    /\ result.pairs[1].content = join(<<LineX, LineBlank>>)
    /\ result.pairs[2].content = LineBare
    /\ result.sections = result.pairs

(***************************************************************************)
(* C16  Parser coverage.                                                   *)
(***************************************************************************)
\* The index of the first line from i on that begins with "## " or "# ",
\* or one past the last line.
NextBoundary(lines, i) ==
    LET later == {j \in i..Len(lines) : Boundary(lines[j])}
    IN  IF later = {} THEN Len(lines) + 1
        ELSE CHOOSE j \in later : \A k \in later : j <= k

\* The lines after the heading at index k, up to the next section boundary.
ContentAfter(lines, k) ==
    join(SubSeq(lines, k + 1, NextBoundary(lines, k + 1) - 1))

\* C16: the parser returns one entry for each name that a "## " heading of
\* the document gives, and the content of an entry is the newline-joined
\* lines, blank ones included, that follow a heading of that name up to the
\* next section boundary; no text before the first heading is in it.
C16_ParserCoverage ==
    (result.op = "parse" /\ target.exists) =>
       LET lines == split(target.text)
           headings == {k \in 1..Len(lines) : OpensSection(lines[k])}
           NameAt(k) == strip(SubSeq(lines[k], 4, Len(lines[k])))
       IN  /\ dict_keys(result.sections) = {NameAt(k) : k \in headings}
           /\ \A i \in 1..Len(result.sections) :
                 \E k \in headings :
                    /\ NameAt(k) = result.sections[i].name
                    /\ result.sections[i].content = ContentAfter(lines, k)

(***************************************************************************)
(* C17  Parsing a path without a document.                                 *)
(***************************************************************************)
\* C17: parse_markdown_sections on a path at which no file exists returns
\* the empty mapping.
C17_ParseMissingFile ==
    (result.op = "parse" /\ ~target.exists) => result.sections = <<>>

\* The parser has been applied to a path without a file.
C17_Witness ==
    /\ result.op = "parse"
    /\ ~target.exists
    /\ result.sections = <<>>
    /\ dict_keys(result.sections) = {}

(***************************************************************************)
(* C19  Update frame on the document.                                      *)
(***************************************************************************)
RECURSIVE BoundaryLines(_)
BoundaryLines(lines) ==
    IF lines = <<>> THEN <<>>
    ELSE IF Boundary(Head(lines)) THEN <<Head(lines)>> \o BoundaryLines(Tail(lines))
    ELSE BoundaryLines(Tail(lines))

\* The heading lines of a document, of either level, in order.
HeadingLines(file) == BoundaryLines(split(file.text))

\* The lines before the first line that opens a named section.
Preamble(file) ==
    LET lines == split(file.text)
        opening == {k \in 1..Len(lines) : OpensSection(lines[k])}
    IN  IF opening = {} THEN lines
        ELSE SubSeq(lines, 1, (CHOOSE k \in opening : \A j \in opening : k <= j) - 1)

\* C19: a writing pass leaves the text before the first section, the heading
\* lines of the document and the content of every block that it does not
\* refresh as they were.
C19_UpdateFrame ==
    [][(WritingStep /\ target.exists) =>
          /\ target'.exists
          /\ Preamble(target') = Preamble(target)
          /\ HeadingLines(target') = HeadingLines(target)
          /\ \A n \in dict_keys(parse_markdown_sections(target))
                      \ SeqToSet(result'.refreshed) :
                ReadBack(target', n) = ReadBack(target, n)]_vars

(***************************************************************************)
(* C20  Deleted block.                                                     *)
(***************************************************************************)
\* The target has no heading for the name.
Absent(n) == ~dict_has(parse_markdown_sections(target), n)

EmptyHash == compute_section_hash(<<>>)

NamesOf(d) == [i \in 1..Len(d) |-> d[i].name]

\* The names of the template's blocks, in the order of the template.
TemplateOrder == NamesOf(TemplateSections)

\* C21: the triple an update pass returns is fixed by the target, the Sync
\* Record and the template as they are at the start of the pass, in dry-run
\* and in writing mode alike.  In a pass that reaches the per-block decision
\* the blocks refreshed are the template's blocks, in template order, whose
\* content in the target at the start has the fingerprint the Sync Record
\* held at the start, and the blocks skipped are those whose content at the
\* start has another fingerprint than the recorded one, whatever the pass
\* wrote for earlier blocks; any other pass returns (0, 0, []).
C21_SnapshotDecisions ==
    [][UpdateStep =>
         IF ReachesDecision
         THEN \E template_sections \in {TemplateSections},
                 current_sections \in {parse_markdown_sections(target)} :
                 LET AtStart(n) == compute_section_hash(dict_get(current_sections, n, <<>>))
                     StartEligible(n) ==
                         n \in Tracked(meta) /\ AtStart(n) = meta.sections[n]
                     StartModified(n) ==
                         n \in Tracked(meta) /\ AtStart(n) # meta.sections[n]
                     order == NamesOf(template_sections)
                 IN  /\ result'.refreshed = SelectSeq(order, StartEligible)
                     /\ result'.updated = Len(result'.refreshed)
                     /\ result'.skipped_names = SelectSeq(order, StartModified)
                     /\ result'.skipped = Len(result'.skipped_names)
         ELSE /\ result'.updated = 0
              /\ result'.skipped = 0
              /\ result'.skipped_names = <<>>]_vars

\* A writing pass has rewritten the text of the template's first block in
\* the target and then decided the second block: one refreshed after the
\* other, or the second skipped.
C21_Witness ==
    /\ result.op = "update"
    /\ ~result.dry_run
    /\ Len(TemplateOrder) = 2
    /\ result.refreshed # <<>>
    /\ result.refreshed[1] = TemplateOrder[1]
    /\ TemplateOrder[1] \in DOMAIN written
    /\ written[TemplateOrder[1]] = Some(TemplateContent(TemplateOrder[1]))
    /\ TemplateOrder[2] \in SeqToSet(result.refreshed) \cup SeqToSet(result.skipped_names)
    /\ edits > 0

(***************************************************************************)
(* C22  No-op update after install.                                        *)
(***************************************************************************)
\* C22: an update pass that directly follows an install, with no edit of
\* the target and no change of the template in between, leaves the target's
\* text and the fingerprints of the Sync Record as the install left them.
C22_NoOpUpdateAfterInstall ==
    [][(result.op = "install" /\ UpdateStep) => (target' = target /\ meta' = meta)]_vars

(***************************************************************************)
(* C23  Report accounting.                                                 *)
(***************************************************************************)
\* The place of a name in a sequence of distinct names that holds it.
IndexIn(names, n) == CHOOSE i \in 1..Len(names) : names[i] = n

\* C23: for every update pass that reaches the per-block decision, the
\* refreshed count plus the skipped count is the number of template block
\* names that had a fingerprint in the Sync Record at the start of the pass,
\* the skipped count is the length of the skipped-names list, and the skipped
\* names are block names of the template, no name twice, in the order of the
\* template's blocks.
C23_ReportAccounting ==
    [][(UpdateStep /\ ReachesDecision) =>
         \E order \in {TemplateOrder} :
            LET skipped_names == result'.skipped_names
            IN  /\ result'.updated + result'.skipped =
                      Cardinality(SeqToSet(order) \cap Tracked(meta))
                /\ result'.skipped = Len(skipped_names)
                /\ \A i \in 1..Len(skipped_names) : skipped_names[i] \in SeqToSet(order)
                /\ \A i, j \in 1..Len(skipped_names) :
                      i < j => IndexIn(order, skipped_names[i])
                                  < IndexIn(order, skipped_names[j])]_vars

\* A pass has skipped two blocks of the template, each with a recorded
\* fingerprint that its content in the target does not have.
C23_Witness ==
    /\ result.op = "update"
    /\ ReachesDecision
    /\ Len(result.skipped_names) = 2
    /\ \A n \in SeqToSet(result.skipped_names) : UserModified(n)

====
